---- MODULE Spec2Model ----
(***************************************************************************)
(* A model of igraph's GraphSummary (src/igraph/summary.py): the textual   *)
(* summary of a graph.  Text is modelled by TLA+ strings, character by     *)
(* character (Len, SubSeq and \o act on strings as on sequences).          *)
(***************************************************************************)
EXTENDS Integers, Sequences, FiniteSets, TLC

(***************************************************************************)
(* Bounds of the model.                                                    *)
(***************************************************************************)
\* vertex count of the non-empty graphs rendered by __str__
MaxV == 4
\* largest base out-degree of a generated graph (and the hub's extra degree)
MaxDeg == 4
\* the narrow finite width used when rendering
NarrowWidth == 12
\* largest vertex count of the graphs handed to an edge-list strategy directly
MaxN == 10
\* largest finite width handed to an edge-list strategy directly
MaxWidth == 24

(***************************************************************************)
(* Python string operations.                                               *)
(***************************************************************************)
RECURSIVE Spaces(_)
Spaces(n) == IF n <= 0 THEN "" ELSE " " \o Spaces(n - 1)

\* "%<w>d" % n and "%<w>s" % s : right-justify in a field of w characters
RJust(s, w) == Spaces(w - Len(s)) \o s

\* str.ljust
LJust(s, w) == s \o Spaces(w - Len(s))

\* sep.join(seq)
RECURSIVE Join(_, _)
Join(sep, seq) ==
    IF seq = <<>> THEN ""
    ELSE IF Len(seq) = 1 THEN seq[1]
    ELSE seq[1] \o sep \o Join(sep, Tail(seq))

\* sub in s
Contains(s, sub) ==
    \E i \in 1..(Len(s) - Len(sub) + 1) : SubSeq(s, i, i + Len(sub) - 1) = sub

\* max(len(x) for x in seq), for a non-empty seq
RECURSIVE MaxLen(_)
MaxLen(seq) ==
    IF Len(seq) = 1 THEN Len(seq[1])
    ELSE LET m == MaxLen(Tail(seq))
         IN  IF Len(seq[1]) > m THEN Len(seq[1]) ELSE m

\* int(ceil(a / float(b))) for a >= 0, b > 0
CeilDiv(a, b) == (a + b - 1) \div b

IsBlank(s) == \A i \in 1..Len(s) : SubSeq(s, i, i) = " "

(***************************************************************************)
(* textwrap.TextWrapper.wrap as GraphSummary configures it: width given,   *)
(* break_on_hyphens = False (chunks are maximal runs of blanks or of       *)
(* non-blanks), break_long_words and drop_whitespace at their defaults,    *)
(* initial_indent empty.                                                   *)
(***************************************************************************)
\* the chunks of text[start..], i being the position under inspection
RECURSIVE SplitChunks(_, _, _, _)
SplitChunks(text, start, i, acc) ==
    IF i > Len(text)
    THEN (IF start > Len(text) THEN acc ELSE Append(acc, SubSeq(text, start, Len(text))))
    ELSE IF i = start \/ ((SubSeq(text, i, i) = " ") <=> (SubSeq(text, start, start) = " "))
    THEN SplitChunks(text, start, i + 1, acc)
    ELSE SplitChunks(text, i, i + 1, Append(acc, SubSeq(text, start, i - 1)))

\* how many leading chunks fit in the room that is left
RECURSIVE TakeFit(_, _)
TakeFit(chunks, room) ==
    IF chunks = <<>> \/ Len(chunks[1]) > room THEN 0
    ELSE 1 + TakeFit(Tail(chunks), room - Len(chunks[1]))

RECURSIVE WrapChunks(_, _, _, _)
WrapChunks(chunks, w, subsequent_indent, lines) ==
    IF chunks = <<>> THEN lines
    ELSE LET indent == IF lines # <<>> THEN subsequent_indent ELSE ""
             width == w - Len(indent)
             ch == IF IsBlank(chunks[1]) /\ lines # <<>> THEN Tail(chunks) ELSE chunks
             k == TakeFit(ch, width)
             fit == SubSeq(ch, 1, k)
             cur_len == Len(Join("", fit))
             rest == SubSeq(ch, k + 1, Len(ch))
             long == rest # <<>> /\ Len(rest[1]) > width
             space_left == IF width < 1 THEN 1 ELSE width - cur_len
             cur_line == IF long THEN Append(fit, SubSeq(rest[1], 1, space_left)) ELSE fit
             rest2 == IF long
                      THEN <<SubSeq(rest[1], space_left + 1, Len(rest[1]))>> \o Tail(rest)
                      ELSE rest
             kept == IF cur_line # <<>> /\ IsBlank(cur_line[Len(cur_line)])
                     THEN SubSeq(cur_line, 1, Len(cur_line) - 1) ELSE cur_line
             lines2 == IF kept # <<>> THEN Append(lines, indent \o Join("", kept)) ELSE lines
         IN  WrapChunks(rest2, w, subsequent_indent, lines2)

TextWrap(text, w, subsequent_indent) ==
    WrapChunks(SplitChunks(text, 1, 1, <<>>), w, subsequent_indent, <<>>)

(***************************************************************************)
(* The graph behind the summary (the Graph object GraphSummary queries).   *)
(* A graph is a record: vcount, directed, edges (a sequence of             *)
(* <<source, target>> pairs over 0..vcount-1), and the attribute names of  *)
(* the graph, of its vertices and of its edges.                            *)
(***************************************************************************)
is_directed(g) == g.directed
InSeq(e, seq) == \E i \in 1..Len(seq) : seq[i] = e
is_named(g) == InSeq("name", g.vattrs)
is_weighted(g) == InSeq("weight", g.eattrs)
vcount(g) == g.vcount
ecount(g) == Len(g.edges)

\* g.vs["name"][v] : the name of vertex v
VertexName(v) == <<"n", "no", "nod">>[(v % 3) + 1] \o ToString(v)

\* g[attr] : the value of a graph attribute, as str() shows it
GraphAttribute(attr) ==
    CASE attr = "name" -> "Net"
      [] attr = "date" -> "2011-05-01"
      [] OTHER -> ""

\* g.successors(v), in edge order; an undirected edge is seen from both ends
RECURSIVE successors(_, _, _)
successors(g, v, i) ==
    IF i > Len(g.edges) THEN <<>>
    ELSE LET e == g.edges[i]
             out == IF e[1] = v THEN <<e[2]>> ELSE <<>>
             in == IF ~g.directed /\ e[2] = v THEN <<e[1]>> ELSE <<>>
         IN  out \o in \o successors(g, v, i + 1)

\* g.degree(type="out")
degree_out(g) == [i \in 1..g.vcount |-> Len(successors(g, i - 1, 1))]

\* igraph.statistics.median, doubled so that it stays an integer: the middle
\* value of the sorted list, or the mean of the two middle values
RECURSIVE InsertSorted(_, _)
InsertSorted(n, seq) ==
    IF seq = <<>> THEN <<n>>
    ELSE IF n <= seq[1] THEN <<n>> \o seq
    ELSE <<seq[1]>> \o InsertSorted(n, Tail(seq))
RECURSIVE SortInts(_)
SortInts(seq) == IF seq = <<>> THEN <<>> ELSE InsertSorted(seq[1], SortInts(Tail(seq)))
median2(xs) ==
    LET s == SortInts(xs)
        n == Len(s)
    IN  IF n % 2 = 1 THEN 2 * s[(n + 1) \div 2] ELSE s[n \div 2] + s[(n \div 2) + 1]

(***************************************************************************)
(* GraphSummary.__init__                                                   *)
(***************************************************************************)
\* the width argument None
None == -1

\* str.lower on the edge_list_format values the model passes
lower(s) ==
    CASE s = "AUTO" -> "auto"
      [] s = "Compressed" -> "compressed"
      [] s = "AdjList" -> "adjlist"
      [] s = "EDGELIST" -> "edgelist"
      [] s = "Foo" -> "foo"
      [] OTHER -> s

\* FakeWrapper carries no subsequent_indent until the header sets one
NewWrapper(w) ==
    IF w = None THEN [kind |-> "FakeWrapper", subsequent_indent |-> "unset"]
    ELSE [kind |-> "TextWrapper", subsequent_indent |-> ""]

EdgesHeader(g) == IF is_named(g) THEN "+ edges (vertex names):" ELSE "+ edges:"

ArrowSwapped(directed) == IF directed THEN "--" ELSE "->"
Arrow(directed) == IF directed THEN "->" ELSE "--"

GraphSummary(g, verb, w, elf, pga, pva, pea) ==
    [graph |-> g,
     edge_list_format |-> lower(elf),
     print_graph_attributes |-> pga,
     print_vertex_attributes |-> pva,
     print_edge_attributes |-> pea,
     verbosity |-> verb,
     width |-> w,
     wrapper |-> NewWrapper(w),
     edges_header |-> EdgesHeader(g),
     arrow |-> Arrow(is_directed(g))]

(***************************************************************************)
(* What a method hands back: a list of lines, None, a string, or an        *)
(* exception.                                                              *)
(***************************************************************************)
Unset == [kind |-> "unset", lines |-> <<>>, text |-> "", exc |-> ""]
RetList(ls) == [kind |-> "list", lines |-> ls, text |-> "", exc |-> ""]
RetNone == [kind |-> "None", lines |-> <<>>, text |-> "", exc |-> ""]
RetStr(t) == [kind |-> "str", lines |-> <<>>, text |-> t, exc |-> ""]
Raise(e) == [kind |-> "raise", lines |-> <<>>, text |-> "", exc |-> e]

\* self.wrapper.wrap(text): FakeWrapper.wrap is declared without self, so the
\* bound call passes two arguments to a one-parameter function
WrapperWrap(wrapper, w, text) ==
    IF wrapper.kind = "FakeWrapper" THEN Raise("TypeError")
    ELSE RetList(TextWrap(text, w, wrapper.subsequent_indent))

(***************************************************************************)
(* GraphSummary._construct_edgelist_adjlist                                *)
(***************************************************************************)
\* names = self._graph.vs["name"]
Names(g) == [i \in 1..vcount(g) |-> VertexName(i - 1)]

\* maxlen of the vertex labels: the longest name, or len(str(vcount))
LabelWidth(g) ==
    IF is_named(g) THEN MaxLen(Names(g)) ELSE Len(ToString(vcount(g)))

\* one row per vertex: label, arrow, successors
AdjRow(g, arrow, v) ==
    LET neis == successors(g, v, 1)
        maxlen == LabelWidth(g)
    IN  IF is_named(g)
        THEN RJust(VertexName(v), maxlen) \o " " \o arrow \o " "
                 \o Join(", ", [j \in 1..Len(neis) |-> VertexName(neis[j])])
        ELSE RJust(ToString(v), maxlen) \o " " \o arrow \o " "
                 \o Join(" ", [j \in 1..Len(neis) |-> RJust(ToString(neis[j]), maxlen)])

AdjRows(g, arrow) == [i \in 1..vcount(g) |-> AdjRow(g, arrow, i - 1)]

\* colcount = int(self.width + 3) / int(maxlen + 3)
ColCountNoSeparator(w, maxlen) == (w + 3) \div maxlen
ColCount(w, maxlen) == (w + 3) \div (maxlen + 3)

\* the packed row that original row i lands in: newrows[i % colheight]
RowSlotRowMajor(i, colheight, colcount) == i \div colcount
RowSlot(i, colheight, colcount) == i % colheight

\* for i, row in enumerate(result[1:]): newrows[slot].append(row.ljust(maxlen))
RECURSIVE FillRows(_, _, _, _, _, _)
FillRows(rows, i, maxlen, colheight, colcount, newrows) ==
    IF i >= Len(rows) THEN newrows
    ELSE FillRows(rows, i + 1, maxlen, colheight, colcount,
             [newrows EXCEPT ![RowSlot(i, colheight, colcount) + 1] =
                  Append(@, LJust(rows[i + 1], maxlen))])

\* "Try to wrap into multiple columns if that works with the given width"
PackRows(rows, w) ==
    IF w = None THEN rows
    ELSE LET maxlen == MaxLen(rows)
             colcount == ColCount(w, maxlen)
             nrows == Len(rows)
             colheight == CeilDiv(nrows, colcount)
             newrows == FillRows(rows, 0, maxlen, colheight, colcount,
                                 [r \in 1..colheight |-> <<>>])
         IN  IF colcount > 1
             THEN [r \in 1..colheight |-> Join("   ", newrows[r])]
             ELSE rows

\* returns the method's value and the per-vertex rows it built before packing
construct_edgelist_adjlist(self) ==
    IF vcount(self.graph) = 0 THEN [ret |-> RetNone, rows |-> <<>>]
    ELSE LET rows == AdjRows(self.graph, self.arrow)
         IN  [ret |-> RetList(<<self.edges_header>> \o PackRows(rows, self.width)),
              rows |-> rows]

(***************************************************************************)
(* GraphSummary._construct_edgelist_compressed, _construct_edgelist_edgelist*)
(***************************************************************************)
construct_edgelist_compressed(self) ==
    LET g == self.graph
        edges == IF is_named(g)
                 THEN Join(", ", [i \in 1..ecount(g) |->
                          VertexName(g.edges[i][1]) \o self.arrow \o VertexName(g.edges[i][2])])
                 ELSE Join(" ", [i \in 1..ecount(g) |->
                          ToString(g.edges[i][1]) \o self.arrow \o ToString(g.edges[i][2])])
    IN  [ret |-> RetList(<<self.edges_header, edges>>), rows |-> <<>>]

construct_edgelist_edgelist(self) ==
    [ret |-> RetList(<<self.edges_header>>), rows |-> <<>>]

(***************************************************************************)
(* GraphSummary._construct_graph_attributes, _construct_vertex_attributes  *)
(***************************************************************************)
\* lexicographic order of the attribute names the model uses
AttrRank(a) ==
    CASE a = "date" -> 1 [] a = "name" -> 2 [] a = "type" -> 3 [] a = "weight" -> 4
      [] OTHER -> 5
RECURSIVE InsertAttr(_, _)
InsertAttr(a, seq) ==
    IF seq = <<>> THEN <<a>>
    ELSE IF AttrRank(a) <= AttrRank(seq[1]) THEN <<a>> \o seq
    ELSE <<seq[1]>> \o InsertAttr(a, Tail(seq))
RECURSIVE SortAttrs(_)
SortAttrs(seq) == IF seq = <<>> THEN <<>> ELSE InsertAttr(seq[1], SortAttrs(Tail(seq)))

RECURSIVE AttrLines(_)
AttrLines(attrs) ==
    IF attrs = <<>> THEN <<>>
    ELSE <<"[[" \o attrs[1] \o "]]", GraphAttribute(attrs[1])>> \o AttrLines(Tail(attrs))

construct_graph_attributes(self) ==
    LET attrs == self.graph.gattrs
    IN  IF attrs = <<>> THEN <<>>
        ELSE <<"+ graph attributes:">> \o AttrLines(SortAttrs(attrs))

construct_vertex_attributes(self) ==
    LET attrs == {self.graph.vattrs[i] : i \in 1..Len(self.graph.vattrs)} \ {"name"}
    IN  IF attrs = {} THEN <<>> ELSE <<"+ vertex attributes:">>

(***************************************************************************)
(* GraphSummary._construct_header                                          *)
(***************************************************************************)
HeaderLine(g) ==
    "IGRAPH " \o (IF is_directed(g) THEN "D" ELSE "U")
              \o (IF is_named(g) THEN "N" ELSE "-")
              \o (IF is_weighted(g) THEN "W" ELSE "-")
              \o (IF InSeq("type", g.vattrs) THEN "T" ELSE "-")
              \o " " \o ToString(vcount(g)) \o " " \o ToString(ecount(g))
              \o " -- " \o (IF InSeq("name", g.gattrs) THEN GraphAttribute("name") ELSE "")

Tagged(names, tag) == [i \in 1..Len(names) |-> names[i] \o " (" \o tag \o ")"]

\* set the continuation indent, wrap the attribute line, reset the indent
WrapAttrLineKeepIndent(wrapper, w, line) ==
    LET w1 == [wrapper EXCEPT !.subsequent_indent = "  "]
    IN  [ret |-> WrapperWrap(w1, w, line), wrapper |-> w1]
WrapAttrLine(wrapper, w, line) ==
    LET w1 == [wrapper EXCEPT !.subsequent_indent = "  "]
        r == WrapperWrap(w1, w, line)
    IN  IF r.kind = "raise" THEN [ret |-> r, wrapper |-> w1]
        ELSE [ret |-> r, wrapper |-> [w1 EXCEPT !.subsequent_indent = ""]]

\* returns the method's value and the wrapper as the method leaves it
construct_header(self) ==
    LET g == self.graph
        attrs == Tagged(g.gattrs, "g") \o Tagged(g.vattrs, "v") \o Tagged(g.eattrs, "e")
        wrapped == WrapAttrLine(self.wrapper, self.width, "+ attr: " \o Join(", ", attrs))
    IN  IF attrs = <<>> THEN [ret |-> RetList(<<HeaderLine(g)>>), wrapper |-> self.wrapper]
        ELSE IF wrapped.ret.kind = "raise" THEN wrapped
        ELSE [ret |-> RetList(<<HeaderLine(g)>> \o wrapped.ret.lines),
              wrapper |-> wrapped.wrapper]

(***************************************************************************)
(* GraphSummary.__str__ : the selection of the edge-list format            *)
(***************************************************************************)
\* the branch of lines 221-226: returns the format and whether median was called
SelectFormatInclusive(self) ==
    IF self.print_edge_attributes /\ self.graph.eattrs # <<>>
    THEN [format |-> "edgelist", median |-> 0]
    ELSE IF median2(degree_out(self.graph)) <= 2 * 3
    THEN [format |-> "compressed", median |-> 1]
    ELSE [format |-> "adjlist", median |-> 1]
SelectFormat(self) ==
    IF self.print_edge_attributes /\ self.graph.eattrs # <<>>
    THEN [format |-> "edgelist", median |-> 0]
    ELSE IF median2(degree_out(self.graph)) < 2 * 3
    THEN [format |-> "compressed", median |-> 1]
    ELSE [format |-> "adjlist", median |-> 1]

ResolveFormat(self) ==
    IF self.edge_list_format = "auto" THEN SelectFormat(self)
    ELSE [format |-> self.edge_list_format, median |-> 0]

\* hasattr(self, "_construct_edgelist_%s" % format)
HasStrategy(format) == format \in {"adjlist", "compressed", "edgelist"}

\* getattr(self, method_name)()
CallStrategy(self, format) ==
    CASE format = "adjlist" -> construct_edgelist_adjlist(self)
      [] format = "compressed" -> construct_edgelist_compressed(self)
      [] format = "edgelist" -> construct_edgelist_edgelist(self)

(***************************************************************************)
(* The graphs and configurations the model draws from.                     *)
(***************************************************************************)
\* vertex v has d out-edges, to v+1, v+2, ... modulo the vertex count
RECURSIVE GenEdges(_, _, _, _)
GenEdges(n, k, h, v) ==
    IF v >= n THEN <<>>
    ELSE LET d == IF v = n - 1 THEN k + h ELSE k
         IN  [j \in 1..d |-> <<v, (v + j) % n>>] \o GenEdges(n, k, h, v + 1)

\* every vertex has out-degree k; in the hub pattern the last one has MaxDeg more
DegreePatterns == {<<k, 0>> : k \in 0..MaxDeg} \cup {<<1, MaxDeg>>}

MakeGraph(n, d, p, ga, va, ea) ==
    [vcount |-> n, directed |-> d, edges |-> GenEdges(n, p[1], p[2], 0),
     gattrs |-> ga, vattrs |-> va, eattrs |-> ea]

RenderGraphs ==
    {MakeGraph(n, d, p, ga, va, ea) :
        n \in {0, MaxV}, d \in BOOLEAN, p \in DegreePatterns,
        ga \in {<<>>, <<"name", "date">>},
        va \in {<<>>, <<"name", "type">>},
        ea \in {<<>>, <<"weight">>}}

StrategyGraphs ==
    {MakeGraph(n, d, p, <<>>, va, <<>>) :
        n \in 0..MaxN, d \in BOOLEAN, p \in DegreePatterns,
        va \in {<<>>, <<"name">>}}

\* the default of the width parameter
DefaultWidth == 78

\* verbosity: header only (<= 0) or the full body
Verbosities == {0, 1}

EdgeListFormats == {"auto", "compressed", "AdjList", "edgelist", "Foo"}

(***************************************************************************)
(* State: the summary object, and the position and locals of the call in   *)
(* progress on it.                                                         *)
(***************************************************************************)
VARIABLES
    self,        \* the GraphSummary object
    pc,          \* "idle", "header", "body", "done" (__str__), "called" (a strategy)
    output,      \* __str__'s list of lines
    format,      \* __str__'s resolved format, "" while none is resolved
    medians,     \* how often __str__ consulted median
    section,     \* the lines __str__ got from the edge-list strategy
    rows,        \* the adjlist strategy's per-vertex rows, before packing
    ret,         \* what the call returned or raised
    prev,        \* what the previous __str__ on this object returned or raised
    called       \* the strategy called directly, "" if none

vars == <<self, pc, output, format, medians, section, rows, ret, prev, called>>

Fresh ==
    /\ pc = "idle"
    /\ output = <<>>
    /\ format = ""
    /\ medians = 0
    /\ section = <<>>
    /\ rows = <<>>
    /\ ret = Unset
    /\ prev = Unset
    /\ called = ""

\* a summary object as a caller of __str__ constructs it
Init ==
    /\ \E g \in RenderGraphs, verb \in Verbosities,
          w \in {None, NarrowWidth, DefaultWidth}, elf \in EdgeListFormats,
          pga \in BOOLEAN, pva \in BOOLEAN, pea \in BOOLEAN :
              self = GraphSummary(g, verb, w, elf, pga, pva, pea)
    /\ Fresh

\* a summary object whose edge-list strategies are called directly
InitStrategy ==
    /\ \E g \in StrategyGraphs, w \in {None} \cup (1..MaxWidth) :
          self = GraphSummary(g, 0, w, "auto", TRUE, TRUE, TRUE)
    /\ Fresh

(***************************************************************************)
(* __str__, in its steps.                                                  *)
(***************************************************************************)
\* line 208: output = self._construct_header()
StrHeader ==
    /\ pc \in {"idle", "done"}
    /\ LET h == construct_header(self)
       IN  /\ self' = [self EXCEPT !.wrapper = h.wrapper]
           /\ IF h.ret.kind = "raise"
              THEN /\ pc' = "done"
                   /\ output' = <<>>
                   /\ ret' = h.ret
              ELSE /\ pc' = "header"
                   /\ output' = h.ret.lines
                   /\ ret' = Unset
    /\ prev' = ret
    /\ format' = ""
    /\ medians' = 0
    /\ section' = <<>>
    /\ rows' = <<>>
    /\ UNCHANGED called

\* lines 209-210: if self.verbosity <= 0: return "\n".join(output)
StrReturnHeader ==
    /\ pc = "header"
    /\ self.verbosity <= 0
    /\ pc' = "done"
    /\ ret' = RetStr(Join("\n", output))
    /\ UNCHANGED <<self, output, format, medians, section, rows, prev, called>>

\* lines 212-232: the attribute tables and the edge list
StrBody ==
    /\ pc = "header"
    /\ self.verbosity > 0
    /\ LET ga == IF self.print_graph_attributes
                 THEN construct_graph_attributes(self) ELSE <<>>
           va == IF self.print_vertex_attributes
                 THEN construct_vertex_attributes(self) ELSE <<>>
           sel == ResolveFormat(self)
           call == CallStrategy(self, sel.format)
       IN  IF ecount(self.graph) > 0
           THEN /\ format' = sel.format
                /\ medians' = sel.median
                /\ IF ~HasStrategy(sel.format)
                   THEN /\ output' = output \o ga \o va
                        /\ pc' = "body"
                        /\ UNCHANGED <<section, rows, ret>>
                   ELSE IF call.ret.kind = "None"
                   THEN \* output.extend(None)
                        /\ output' = output \o ga \o va
                        /\ pc' = "done"
                        /\ ret' = Raise("TypeError")
                        /\ rows' = call.rows
                        /\ UNCHANGED section
                   ELSE /\ output' = output \o ga \o va \o call.ret.lines
                        /\ section' = call.ret.lines
                        /\ rows' = call.rows
                        /\ pc' = "body"
                        /\ UNCHANGED ret
           ELSE /\ output' = output \o ga \o va
                /\ pc' = "body"
                /\ UNCHANGED <<format, medians, section, rows, ret>>
    /\ UNCHANGED <<self, prev, called>>

\* lines 234-235: every line through the wrapper, joined with newlines
StrWrap ==
    /\ pc = "body"
    /\ pc' = "done"
    /\ ret' = IF self.wrapper.kind = "FakeWrapper" THEN Raise("TypeError")
              ELSE RetStr(Join("\n",
                       [i \in 1..Len(output) |->
                           Join("\n", TextWrap(output[i], self.width,
                                               self.wrapper.subsequent_indent))]))
    /\ UNCHANGED <<self, output, format, medians, section, rows, prev, called>>

Next == StrHeader \/ StrReturnHeader \/ StrBody \/ StrWrap

Spec == Init /\ [][Next]_vars

(***************************************************************************)
(* The three edge-list strategies, each called on its own.                 *)
(***************************************************************************)
Strategy(name, call) ==
    /\ pc = "idle"
    /\ pc' = "called"
    /\ called' = name
    /\ ret' = call.ret
    /\ rows' = call.rows
    /\ UNCHANGED <<self, output, format, medians, section, prev>>

Adjlist == Strategy("adjlist", construct_edgelist_adjlist(self))
Compressed == Strategy("compressed", construct_edgelist_compressed(self))
Edgelist == Strategy("edgelist", construct_edgelist_edgelist(self))

NextStrategy == Adjlist \/ Compressed \/ Edgelist

SpecStrategy == InitStrategy /\ [][NextStrategy]_vars

(***************************************************************************)
(* Properties.                                                             *)
(***************************************************************************)
Occurrences(s, sub) ==
    Cardinality({i \in 1..(Len(s) - Len(sub) + 1) : SubSeq(s, i, i + Len(sub) - 1) = sub})

HasAttributes(g) == g.gattrs # <<>> \/ g.vattrs # <<>> \/ g.eattrs # <<>>

\* C1: a summary returned with verbosity <= 0 is exactly one line, the IGRAPH
\* header line, whatever attributes or edges the graph has.
C1_HeaderLineOnly ==
    (pc = "done" /\ self.verbosity <= 0 /\ ret.kind = "str")
        => (ret.text = HeaderLine(self.graph) /\ ~Contains(ret.text, "\n"))

\* C2: with width None rendering completes without error and every logical
\* line appears in the returned text as one unsplit line.
C2_NoWidthIsIdentity ==
    (pc = "done" /\ self.width = None)
        => (ret.kind = "str" /\ ret.text = Join("\n", output))

\* the k-th smallest entry of a non-empty sequence of numbers
KthSmallest(xs, k) ==
    CHOOSE v \in {xs[i] : i \in 1..Len(xs)} :
        /\ Cardinality({i \in 1..Len(xs) : xs[i] < v}) < k
        /\ Cardinality({i \in 1..Len(xs) : xs[i] <= v}) >= k

\* the median of the out-degrees is strictly less than 3
MedianOutDegreeBelow3(g) ==
    LET xs == degree_out(g)
        n == Len(xs)
    IN  IF n % 2 = 1 THEN KthSmallest(xs, (n + 1) \div 2) < 3
        ELSE KthSmallest(xs, n \div 2) + KthSmallest(xs, (n \div 2) + 1) < 6

\* C3: once __str__ (verbosity >= 1) is past the edge list: with no edges no
\* format is resolved, median is not consulted and no strategy is invoked; with
\* edges and format "auto" the format is edgelist if edge attributes are to be
\* printed and exist, else compressed if the median out-degree is below 3, else
\* adjlist; with edges and an explicit format that format is taken and median is
\* not consulted.
C3_FormatSelection ==
    pc = "body" =>
        LET g == self.graph
            wantsEdgelist == self.print_edge_attributes /\ g.eattrs # <<>>
        IN  IF ecount(g) = 0
            THEN format = "" /\ medians = 0 /\ section = <<>>
            ELSE IF self.edge_list_format = "auto"
            THEN /\ format = (IF wantsEdgelist THEN "edgelist"
                              ELSE IF MedianOutDegreeBelow3(g) THEN "compressed"
                              ELSE "adjlist")
                 /\ medians = (IF wantsEdgelist THEN 0 ELSE 1)
                 /\ section # <<>>
            ELSE /\ format = self.edge_list_format
                 /\ medians = 0
                 /\ (format \in {"compressed", "adjlist", "edgelist"} => section # <<>>)

\* out-degrees [1,1,1,5] under "auto" select compressed
C3_Witness ==
    /\ pc = "body"
    /\ self.edge_list_format = "auto"
    /\ degree_out(self.graph) = <<1, 1, 1, 5>>
    /\ medians = 1
    /\ format = "compressed"

\* C4: an explicit, unrecognised edge_list_format on a graph with edges and
\* verbosity >= 1 ends in InvalidConfiguration (checked where the wrapper is
\* a TextWrapper, so that nothing else ends the call first).
C4_UnknownFormatIsReported ==
    (/\ pc = "done"
     /\ self.verbosity >= 1
     /\ ecount(self.graph) > 0
     /\ self.wrapper.kind = "TextWrapper"
     /\ self.edge_list_format \notin {"auto", "compressed", "adjlist", "edgelist"})
        => (ret.kind = "raise" /\ ret.exc = "InvalidConfiguration")

(***************************************************************************)
(* Reading the adjlist strategy's packed rows.  Cells are maxlen wide and  *)
(* three blanks apart.                                                     *)
(***************************************************************************)
\* the adjlist strategy returned rows that it packed into columns
Packed ==
    /\ pc = "called"
    /\ called = "adjlist"
    /\ ret.kind = "list"
    /\ self.width # None
    /\ Len(rows) >= 1
    /\ (self.width + 3) \div (MaxLen(rows) + 3) > 1

PackedRow(r) == ret.lines[r + 1]
PackedCount == Len(ret.lines) - 1
CellCount(r) == (Len(PackedRow(r)) + 3) \div (MaxLen(rows) + 3)
Cell(r, c) ==
    LET m == MaxLen(rows)
    IN  SubSeq(PackedRow(r), (c - 1) * (m + 3) + 1, (c - 1) * (m + 3) + m)
RECURSIVE CellsUpTo(_)
CellsUpTo(r) == IF r = 0 THEN 0 ELSE CellCount(r) + CellsUpTo(r - 1)

\* the cells packed row by packed row, left to right
RECURSIVE RowMajor(_)
RowMajor(r) ==
    IF r > PackedCount THEN <<>>
    ELSE [c \in 1..CellCount(r) |-> Cell(r, c)] \o RowMajor(r + 1)

PaddedRows == [i \in 1..Len(rows) |-> LJust(rows[i], MaxLen(rows))]

\* C5 as stated: read in row-major order, the cells of the packed rows are the
\* original rows in their original order.
C5_RowMajorReconstructs == Packed => RowMajor(1) = PaddedRows

\* C5, amended: read in column-major order (column by column, each column from
\* the top packed row down), the cells of the packed rows are the original rows
\* in their original order, each padded to the longest row; there are as many
\* cells as rows.
C5_ColumnMajorReconstructs ==
    Packed =>
        /\ CellsUpTo(PackedCount) = Len(rows)
        /\ \A i \in 0..(Len(rows) - 1) :
              /\ (i \div PackedCount) + 1 <= CellCount((i % PackedCount) + 1)
              /\ Cell((i % PackedCount) + 1, (i \div PackedCount) + 1) = PaddedRows[i + 1]

\* several packed rows of several columns
C5_Witness == Packed /\ PackedCount >= 2 /\ CellCount(1) >= 2 /\ Len(rows) >= 5

\* C6: each edge-list strategy returns a non-empty list of lines whose first
\* line is the edges header, for every graph, one without vertices included.
C6_StrategyStartsWithHeader ==
    pc = "called" =>
        /\ ret.kind = "list"
        /\ Len(ret.lines) >= 1
        /\ ret.lines[1] = (IF is_named(self.graph) THEN "+ edges (vertex names):"
                           ELSE "+ edges:")

\* C7 as stated: the text of a summary, header line included, never holds
\* both glyphs, "->" and "--".
C7_OneGlyphInSummary ==
    (pc = "done" /\ ret.kind = "str")
        => ~(Contains(ret.text, "->") /\ Contains(ret.text, "--"))

\* C7, amended: in the edge section (the strategy's lines after the edges
\* header) the glyph is "->" for a directed and "--" for an undirected graph:
\* once per edge in the compressed line, once per vertex row of the adjlist,
\* and the other glyph does not occur there; the header line holds "--" for
\* every graph.
C7_EdgeSectionGlyph ==
    (pc = "body" /\ section # <<>>) =>
        LET glyph == IF is_directed(self.graph) THEN "->" ELSE "--"
            other == IF is_directed(self.graph) THEN "--" ELSE "->"
        IN  /\ \A i \in 2..Len(section) : ~Contains(section[i], other)
            /\ format = "compressed"
                  => Occurrences(section[2], glyph) = ecount(self.graph)
            /\ format = "adjlist"
                  => /\ Len(rows) = vcount(self.graph)
                     /\ \A i \in 1..Len(rows) :
                           Occurrences(rows[i], glyph) = 1 /\ ~Contains(rows[i], other)
            /\ Contains(output[1], " -- ")

\* a directed graph's summary with its edges in it
C7_Witness ==
    /\ pc = "body"
    /\ is_directed(self.graph)
    /\ format = "compressed"
    /\ Len(section) = 2
    /\ Contains(section[2], "->")

\* C8: every adjlist row starts with the vertex label right-justified to the
\* longest label (the longest name, or the digits of vcount - 1), a blank and
\* the arrow.
C8_LabelWidth ==
    (pc = "called" /\ called = "adjlist" /\ vcount(self.graph) >= 1) =>
        LET g == self.graph
            longest == IF is_named(g) THEN MaxLen(Names(g))
                       ELSE Len(ToString(vcount(g) - 1))
            label(v) == IF is_named(g) THEN VertexName(v) ELSE ToString(v)
        IN  /\ Len(rows) = vcount(g)
            /\ \A i \in 1..Len(rows) :
                  SubSeq(rows[i], 1, longest + 3)
                      = RJust(label(i - 1), longest) \o " " \o self.arrow

\* C9: between the construction of the header and the end of __str__ the
\* wrapper's continuation indent is not the two blanks (a TextWrapper's is
\* empty), so the final pass wraps with an empty indent; and a second __str__
\* on the same object gives what the first gave.
C9_IndentOnlyForAttrLine ==
    /\ (pc \in {"header", "body"} \/ (pc = "done" /\ ret.kind = "str"))
          => /\ self.wrapper.subsequent_indent # "  "
             /\ (self.wrapper.kind = "TextWrapper" => self.wrapper.subsequent_indent = "")
    /\ (pc = "done" /\ prev.kind # "unset") => ret = prev

\* a second rendering whose attribute line was wrapped with the indent
C9_Witness ==
    /\ pc = "done"
    /\ ret.kind = "str"
    /\ prev = ret
    /\ self.verbosity >= 1
    /\ HasAttributes(self.graph)
    /\ Contains(ret.text, "\n  ")
    /\ section # <<>>

\* C10: when the adjlist strategy packs N rows into columnCount =
\* (width + 3) \div (maxRowLength + 3) > 1 columns, there are ceil(N / columnCount)
\* packed rows, each of 1..columnCount cells, each at most width long, and each
\* left as one line by the wrapper.
C10_PackedRowsFit ==
    Packed =>
        LET m == MaxLen(rows)
            columnCount == (self.width + 3) \div (m + 3)
        IN  /\ PackedCount * columnCount >= Len(rows)
            /\ (PackedCount - 1) * columnCount < Len(rows)
            /\ \A r \in 1..PackedCount :
                  /\ \E c \in 1..columnCount : Len(PackedRow(r)) = c * (m + 3) - 3
                  /\ Len(PackedRow(r)) <= self.width
                  /\ Len(TextWrap(PackedRow(r), self.width, "")) = 1

\* packed rows of unequal cell counts
C10_Witness ==
    /\ Packed
    /\ PackedCount >= 2
    /\ CellCount(1) > CellCount(PackedCount)
    /\ CellCount(PackedCount) >= 1

====
